---- MODULE Spec2Model ----
(***************************************************************************)
(* A model of libstatistics_collector: the online aggregator               *)
(* (MovingAverageStatistics), the collection lifecycle (Collector) and the *)
(* message period adapter (ReceivedMessagePeriodCollector).                *)
(*                                                                         *)
(* Every C++ statement that touches shared state is one step of a thread,  *)
(* so that the mutexes, and not the model, make the operations atomic.     *)
(* Doubles are modelled exactly: a finite double is a normalised rational  *)
(* n/d, and NaN, +inf, -inf, numeric_limits<double>::max() and             *)
(* numeric_limits<double>::min() are values of their own.  Rounding is     *)
(* not modelled.                                                           *)
(***************************************************************************)
EXTENDS Integers, Sequences, FiniteSets, TLC

VARIABLES
    collected_data_,   \* Collector::collected_data_: the aggregator's five fields
    agg_mutex,         \* MovingAverageStatistics::mutex_: its holder, or NoThread
    started_,          \* Collector::started_
    mutex_,            \* Collector::mutex_: its holder, or NoThread
    time_last_message_received_,  \* ReceivedMessagePeriodCollector's member
    period_mutex,      \* ReceivedMessagePeriodCollector::mutex_: holder, or NoThread
    pc,                \* pc[t]: the statement thread t executes next
    op,                \* op[t]: the public operation thread t is running
    local,             \* local[t]: the arguments, locals and result of that call
    hist,              \* history: AddMeasurement arguments completed since the last completed Reset
    dirty,             \* history: some observation was accepted since construction
    last_call,         \* history: the latest Start/Stop call of the single caller that
                       \*          returned, and its result
    live_start,        \* history: a Start() made the transition and returned, and no Stop() followed
    kept,              \* history: observations in the aggregate whose AcceptData began under live_start
    first_pending,     \* history: "alone" or "overlapped" once a Start() returned true, as a
                       \*          handler ran during it or not; "no" once a handler took over
    clock,             \* history: the receipt time of the latest event delivered
    delivered          \* history: the events handled one after another since construction
                       \*          or the latest Start() of the period adapter

vars == <<collected_data_, agg_mutex, started_, mutex_, time_last_message_received_,
          period_mutex, pc, op, local, hist, dirty, last_call, live_start, kept, first_pending,
          clock, delivered>>

----------------------------------------------------------------------------
(* Bounds of the model *)

\* largest absolute value of an observation handed to AddMeasurement / AcceptData
MaxAbs == 3
\* most AddMeasurement calls (completed or running) between two resets
MaxObs == 3
\* most AddMeasurement calls between two resets where threads run concurrently
MaxConcObs == 2

\* most ticks of the clock that stamps the events
MaxTicks == 1
\* the periods recorded, and being recorded, between two resets of the period adapter
MaxPeriodObs == 1
\* most events handled one after another since construction or the latest Start()
MaxEvents == 3
\* largest seconds field of a header stamp
MaxSec == 1
\* most observations handed in between two resets where every operation runs concurrently
MaxAllObs == 1
\* calls of AddMeasurement between two resets where only the count is followed
MaxCountObs == 3

Threads == {1, 2, 3}
SeqThreads == {1}
ConcThreads == {2, 3}
NoThread == 0

\* a slip: a sentinel that no receipt time equals
kUninitializedTime_Negative == 0 - 1

\* constexpr const int64_t kUninitializedTime{0}
kUninitializedTime == 0
\* std::milli: nanoseconds in a millisecond
NanosPerMilli == 1000000
\* RCL_S_TO_NS: nanoseconds in a second
NanosPerSecond == 1000000000

----------------------------------------------------------------------------
(* double *)

RECURSIVE GCD(_, _)
GCD(a, b) == IF b = 0 THEN a ELSE GCD(b, a % b)

Abs(x) == IF x < 0 THEN -x ELSE x

\* the finite double n/d (d > 0), in lowest terms
Fin(n, d) ==
    LET g == GCD(Abs(n), d)
    IN  [k |-> "fin", n |-> n \div g, d |-> d \div g]

Num(i) == Fin(i, 1)
NaN    == [k |-> "nan",    n |-> 0, d |-> 1]
PInf   == [k |-> "pinf",   n |-> 0, d |-> 1]
NInf   == [k |-> "ninf",   n |-> 0, d |-> 1]
\* std::numeric_limits<double>::max(): the largest finite double
DblMax == [k |-> "dblmax", n |-> 0, d |-> 1]
\* std::numeric_limits<double>::min(): the smallest POSITIVE normalised double
DblMin == [k |-> "dblmin", n |-> 0, d |-> 1]

isnan(a) == a.k = "nan"
IsFin(a) == a.k = "fin"

FNeg(a) ==
    CASE a.k = "fin"  -> Fin(-a.n, a.d)
      [] a.k = "pinf" -> NInf
      [] a.k = "ninf" -> PInf
      [] OTHER        -> NaN

FAdd(a, b) ==
    CASE isnan(a) \/ isnan(b)         -> NaN
      [] IsFin(a) /\ IsFin(b)         -> Fin(a.n * b.d + b.n * a.d, a.d * b.d)
      [] IsFin(a)                     -> b
      [] IsFin(b)                     -> a
      [] a.k = b.k                    -> a
      [] OTHER                        -> NaN     \* inf - inf

FSub(a, b) == FAdd(a, FNeg(b))

FSign(a) ==
    CASE a.k = "pinf" -> 1
      [] a.k = "ninf" -> -1
      [] OTHER        -> IF a.n > 0 THEN 1 ELSE IF a.n < 0 THEN -1 ELSE 0

FMul(a, b) ==
    CASE isnan(a) \/ isnan(b)         -> NaN
      [] IsFin(a) /\ IsFin(b)         -> Fin(a.n * b.n, a.d * b.d)
      [] FSign(a) * FSign(b) = 0      -> NaN     \* 0 * inf
      [] FSign(a) * FSign(b) > 0      -> PInf
      [] OTHER                        -> NInf

\* a / c for a count c > 0 converted to double
FDivCount(a, c) ==
    IF IsFin(a) THEN Fin(a.n, a.d * c) ELSE a

\* the rank of a non-NaN double among the kinds of value
FClass(a) ==
    CASE a.k = "ninf"   -> 0
      [] a.k = "fin"    -> IF a.n <= 0 THEN 1 ELSE 3
      [] a.k = "dblmin" -> 2
      [] a.k = "dblmax" -> 4
      [] a.k = "pinf"   -> 5

\* operator< of double: false when either side is NaN
FLess(a, b) ==
    IF isnan(a) \/ isnan(b) THEN FALSE
    ELSE IF FClass(a) # FClass(b) THEN FClass(a) < FClass(b)
    ELSE IF IsFin(a) THEN a.n * b.d < b.n * a.d
    ELSE FALSE

\* std::min(a, b): (b < a) ? b : a
StdMin(a, b) == IF FLess(b, a) THEN b ELSE a
\* std::max(a, b): (a < b) ? b : a
StdMax(a, b) == IF FLess(a, b) THEN b ELSE a

ISqrt(n) == CHOOSE r \in 0..n : r * r <= n /\ (r + 1) * (r + 1) > n
IsSquare(n) == ISqrt(n) * ISqrt(n) = n

\* std::sqrt: exact when the root is rational, else the irrational root of n/d,
\* kept as the value "sqrt of n/d"; NaN for a negative argument
StdSqrt(a) ==
    CASE a.k = "nan"  -> NaN
      [] a.k = "pinf" -> PInf
      [] a.k = "ninf" -> NaN
      [] a.k = "fin"  ->
            IF a.n < 0 THEN NaN
            ELSE IF IsSquare(a.n) /\ IsSquare(a.d) THEN Fin(ISqrt(a.n), ISqrt(a.d))
            ELSE [k |-> "sqrt", n |-> a.n, d |-> a.d]

----------------------------------------------------------------------------
(* MovingAverageStatistics: the data *)

\* StatisticData's default member initialisers (types.hpp)
DefaultStatisticData ==
    [average |-> NaN, min |-> NaN, max |-> NaN, standard_deviation |-> NaN,
     sample_count |-> 0]

\* the value Reset() gives min_ and the member initialiser of min_
ResetMin == DblMax
\* the value Reset() gives max_ and the member initialiser of max_
ResetMax == DblMin

\* MovingAverageStatistics' default member initialisers (moving_average.hpp)
InitialAggregate ==
    [average_ |-> Num(0), min_ |-> ResetMin, max_ |-> ResetMax,
     sum_of_square_diff_from_mean_ |-> Num(0), count_ |-> 0]

\* no Start/Stop call has returned yet
NoCall == [op |-> "none", ret |-> FALSE, hook |-> "none"]

\* MetricsMessage msg: a default-constructed message
DefaultMetricsMessage ==
    [measurement_source_name |-> "", metrics_source |-> "", unit |-> "",
     window_start |-> [sec |-> 0, nanosec |-> 0],
     window_stop |-> [sec |-> 0, nanosec |-> 0],
     statistics |-> <<>>]

\* the locals of a thread that runs no operation
DefaultLocal ==
    [item |-> NaN,                        \* AddMeasurement's item / AcceptData's measurement
     previous_average |-> Num(0),         \* AddMeasurement's previous_average
     to_return |-> DefaultStatisticData,  \* GetStatistics' to_return
     count |-> 0,                         \* GetCount's result
     ret |-> FALSE,                       \* Start's / Stop's / IsStarted's result
     hook |-> "none",                     \* history: what the setup hook returned
     now_nanoseconds |-> 0,               \* OnMessageReceived's now_nanoseconds
     last_seen |-> 0,                     \* the value the handler's test read
     nanos |-> 0,                         \* OnMessageReceived's nanos
     recorded |-> "none",                 \* history: the handler's outcome
     seen_hist |-> <<>>,                  \* history: hist when GetStatistics took the lock
     after_start |-> FALSE,               \* history: live_start when AcceptData began
     restarted |-> FALSE,                 \* history: a Start() returned since this Stop()'s transition
     erased |-> 0,                        \* history: observations this call's Reset() cleared
     overlapped |-> FALSE,                \* history: a handler ran during this Start()
     stale |-> FALSE,                     \* history: this Start() erased a baseline
     has_header |-> FALSE,                \* HasHeader<T>::value of the message type
     stamp |-> [sec |-> 0, nanosec |-> 0],  \* received_message.header.stamp
     timestamp_from_header |-> [first |-> FALSE, second |-> 0],  \* the age handler's local
     started_before |-> FALSE,            \* history: started_ when the call began
     order |-> "none",                    \* GetStatusString: which operand of << runs first
     raced |-> FALSE,                     \* history: another Start() was waiting for mutex_
                                          \*          when this one took it
     stopped_since |-> FALSE,             \* history: a Stop() made its transition after
                                          \*          this Start() was called
     msg |-> DefaultMetricsMessage,       \* GenerateStatisticMessage's msg
     args |-> DefaultMetricsMessage,      \* its arguments other than data (statistics unused)
     joint |-> {},                        \* history: <<started, count>> pairs the collector
                                          \* held while this GetStatusString ran, if kept
     in_sequence |-> FALSE,               \* history: the event is one of a sequence handled
                                          \*          one after another
     began_after_start |-> FALSE,         \* history: a Start() had returned true when it began
     alone_start |-> FALSE,               \* history: no handler ran during that Start()
     first_after_start |-> FALSE]         \* history: it began after a Start() returned true and
                                          \*          is the first to take the adapter's lock since

----------------------------------------------------------------------------
(* MovingAverageStatistics: the statements, as functions of the fields *)

\* a slip: no mutual exclusion
AggMutexFree_NoExclusion == TRUE

\* std::lock_guard<std::mutex> guard{mutex_} returns only when nobody owns mutex_
AggMutexFree == agg_mutex = NoThread

\* a slip: the NaN test left out
Accepts_OnlyStarted(item) == ~isnan(item) /\ started_
Accepts_NoTest(item) == TRUE

\* AddMeasurement: if (!std::isnan(item))
Accepts(item) == ~isnan(item)

\* a slip: an observation counted twice
IncCount_Twice(a) == [a EXCEPT !.count_ = @ + 2]

\* AddMeasurement: count_++
IncCount(a) == [a EXCEPT !.count_ = @ + 1]

\* AddMeasurement: average_ = previous_average + (item - previous_average) / count_
NewAverage(a, item, prev) ==
    [a EXCEPT !.average_ = FAdd(prev, FDivCount(FSub(item, prev), a.count_))]

\* AddMeasurement: min_ = std::min(min_, item)
NewMin(a, item) == [a EXCEPT !.min_ = StdMin(a.min_, item)]

\* AddMeasurement: max_ = std::max(max_, item)
NewMax(a, item) == [a EXCEPT !.max_ = StdMax(a.max_, item)]

\* a slip: the old mean used twice, (item - previous_average)^2
NewSumSq_OldMeanTwice(a, item, prev) ==
    [a EXCEPT !.sum_of_square_diff_from_mean_ =
        FAdd(@, FMul(FSub(item, prev), FSub(item, prev)))]

\* AddMeasurement: sum_of_square_diff_from_mean_ += (item - previous_average) * (item - average_)
NewSumSq(a, item, prev) ==
    [a EXCEPT !.sum_of_square_diff_from_mean_ =
        FAdd(@, FMul(FSub(item, prev), FSub(item, a.average_)))]

\* GetStatistics: std::sqrt(sum_of_square_diff_from_mean_ / count_)
StandardDeviationOf(a) ==
    StdSqrt(FDivCount(a.sum_of_square_diff_from_mean_, a.count_))

\* a slip: count_ not cleared
ResetCount_Kept(a) == a

\* Reset: count_ = 0
ResetCount(a) == [a EXCEPT !.count_ = 0]

\* the whole of AddMeasurement(item) run by one thread alone
AddMeasurementOf(a, item) ==
    IF ~Accepts(item) THEN a
    ELSE LET prev == a.average_
             a1 == IncCount(a)
             a2 == NewAverage(a1, item, prev)
             a3 == NewMin(a2, item)
             a4 == NewMax(a3, item)
         IN  NewSumSq(a4, item, prev)

\* the whole of GetStatistics() run by one thread alone
GetStatisticsOf(a) ==
    IF a.count_ = 0 THEN DefaultStatisticData
    ELSE [sample_count |-> a.count_, average |-> a.average_, min |-> a.min_,
          max |-> a.max_, standard_deviation |-> StandardDeviationOf(a)]

----------------------------------------------------------------------------
(* Threads *)

At(t, l) == pc[t] = l
Go(t, l) == pc' = [pc EXCEPT ![t] = l]

aggVars   == <<collected_data_, agg_mutex>>
colVars   == <<started_, mutex_>>
perVars   == <<time_last_message_received_, period_mutex>>
ghostVars == <<hist, dirty, last_call, live_start, kept, first_pending, clock, delivered>>

\* AddMeasurement calls that have begun and not completed
Adding == {t \in Threads : pc[t] # "idle" /\ op[t] \in {"AddMeasurement", "AcceptData", "OnMessageReceived",
                                                        "AgeOnMessageReceived"}}

\* an OnMessageReceived call has begun and not returned
HandlerRunning == \E t \in Threads : op[t] = "OnMessageReceived" /\ pc[t] \notin {"idle", "done"}

\* a slip: the handler leaves without releasing its lock
AfterAddMeasurement_NoUnlock(t) == "done"

\* where AddMeasurement returns to
AfterAddMeasurement(t) ==
    IF op[t] = "OnMessageReceived" THEN "omr_unlock" ELSE "done"

\* where Reset returns to
AfterReset(t) ==
    IF op[t] = "Stop" THEN "stop_return" ELSE "done"

\* where GetStatistics returns to
AfterGetStatistics(t) ==
    IF local[t].order = "results_first" THEN "is_lock" ELSE "done"

\* history: the locals l once the collector holds the flag b and n observations, for the
\* GetStatusString() calls that keep this history
Witnessed(l, b, n) ==
    [u \in Threads |-> IF op[u] = "GetStatusString" /\ l[u].joint # {}
                       THEN [l[u] EXCEPT !.joint = @ \cup {<<b, n>>}]
                       ELSE l[u]]

\* where IsStarted returns to
AfterIsStarted(t) ==
    IF local[t].order = "started_first" THEN "gs_lock" ELSE "done"

----------------------------------------------------------------------------
(* MovingAverageStatistics::AddMeasurement, moving_average.cpp 105-118 *)

AM_Lock(t) ==
    /\ At(t, "am_lock")
    /\ AggMutexFree
    /\ agg_mutex' = t
    /\ Go(t, "am_isnan")
    /\ UNCHANGED <<collected_data_, colVars, perVars, op, local, ghostVars>>

AM_IsNan(t) ==
    /\ At(t, "am_isnan")
    /\ IF Accepts(local[t].item) THEN Go(t, "am_count") ELSE Go(t, "am_unlock")
    /\ UNCHANGED <<aggVars, colVars, perVars, op, local, ghostVars>>

AM_Count(t) ==
    /\ At(t, "am_count")
    /\ collected_data_' = IncCount(collected_data_)
    /\ Go(t, "am_previous")
    /\ UNCHANGED <<agg_mutex, colVars, perVars, op, local, ghostVars>>

AM_Previous(t) ==
    /\ At(t, "am_previous")
    /\ local' = [local EXCEPT ![t].previous_average = collected_data_.average_]
    /\ Go(t, "am_average")
    /\ UNCHANGED <<aggVars, colVars, perVars, op, ghostVars>>

AM_Average(t) ==
    /\ At(t, "am_average")
    /\ collected_data_' = NewAverage(collected_data_, local[t].item, local[t].previous_average)
    /\ Go(t, "am_min")
    /\ UNCHANGED <<agg_mutex, colVars, perVars, op, local, ghostVars>>

AM_Min(t) ==
    /\ At(t, "am_min")
    /\ collected_data_' = NewMin(collected_data_, local[t].item)
    /\ Go(t, "am_max")
    /\ UNCHANGED <<agg_mutex, colVars, perVars, op, local, ghostVars>>

AM_Max(t) ==
    /\ At(t, "am_max")
    /\ collected_data_' = NewMax(collected_data_, local[t].item)
    /\ Go(t, "am_sumsq")
    /\ UNCHANGED <<agg_mutex, colVars, perVars, op, local, ghostVars>>

AM_SumSq(t) ==
    /\ At(t, "am_sumsq")
    /\ collected_data_' = NewSumSq(collected_data_, local[t].item, local[t].previous_average)
    /\ Go(t, "am_unlock")
    /\ UNCHANGED <<agg_mutex, colVars, perVars, op, local, ghostVars>>

AM_Unlock(t) ==
    /\ At(t, "am_unlock")
    /\ agg_mutex' = NoThread
    /\ hist' = Append(hist, local[t].item)
    /\ dirty' = (dirty \/ ~isnan(local[t].item))
    /\ kept' = IF local[t].after_start /\ ~isnan(local[t].item) THEN kept + 1 ELSE kept
    /\ local' = Witnessed(local, started_, Len(SelectSeq(hist', LAMBDA x : ~isnan(x))))
    /\ Go(t, AfterAddMeasurement(t))
    /\ UNCHANGED <<collected_data_, colVars, perVars, op, last_call, live_start,
                   first_pending, clock, delivered>>

AddMeasurement(t) ==
    \/ AM_Lock(t) \/ AM_IsNan(t) \/ AM_Count(t) \/ AM_Previous(t) \/ AM_Average(t)
    \/ AM_Min(t) \/ AM_Max(t) \/ AM_SumSq(t) \/ AM_Unlock(t)

----------------------------------------------------------------------------
(* MovingAverageStatistics::Reset, moving_average.cpp 90-98 *)

RS_Lock(t) ==
    /\ At(t, "rs_lock")
    /\ AggMutexFree
    /\ agg_mutex' = t
    /\ Go(t, "rs_average")
    /\ UNCHANGED <<collected_data_, colVars, perVars, op, local, ghostVars>>

RS_Average(t) ==
    /\ At(t, "rs_average")
    /\ collected_data_' = [collected_data_ EXCEPT !.average_ = Num(0)]
    /\ Go(t, "rs_min")
    /\ UNCHANGED <<agg_mutex, colVars, perVars, op, local, ghostVars>>

RS_Min(t) ==
    /\ At(t, "rs_min")
    /\ collected_data_' = [collected_data_ EXCEPT !.min_ = ResetMin]
    /\ Go(t, "rs_max")
    /\ UNCHANGED <<agg_mutex, colVars, perVars, op, local, ghostVars>>

RS_Max(t) ==
    /\ At(t, "rs_max")
    /\ collected_data_' = [collected_data_ EXCEPT !.max_ = ResetMax]
    /\ Go(t, "rs_sumsq")
    /\ UNCHANGED <<agg_mutex, colVars, perVars, op, local, ghostVars>>

RS_SumSq(t) ==
    /\ At(t, "rs_sumsq")
    /\ collected_data_' = [collected_data_ EXCEPT !.sum_of_square_diff_from_mean_ = Num(0)]
    /\ Go(t, "rs_count")
    /\ UNCHANGED <<agg_mutex, colVars, perVars, op, local, ghostVars>>

RS_Count(t) ==
    /\ At(t, "rs_count")
    /\ collected_data_' = ResetCount(collected_data_)
    /\ Go(t, "rs_unlock")
    /\ UNCHANGED <<agg_mutex, colVars, perVars, op, local, ghostVars>>

RS_Unlock(t) ==
    /\ At(t, "rs_unlock")
    /\ agg_mutex' = NoThread
    /\ hist' = <<>>
    /\ kept' = 0
    /\ local' = Witnessed([local EXCEPT
                              ![t].erased = Len(SelectSeq(hist, LAMBDA x : ~isnan(x)))],
                          started_, 0)
    /\ Go(t, AfterReset(t))
    /\ UNCHANGED <<collected_data_, colVars, perVars, op, dirty, last_call, live_start,
                   first_pending, clock, delivered>>

Reset(t) ==
    \/ RS_Lock(t) \/ RS_Average(t) \/ RS_Min(t) \/ RS_Max(t) \/ RS_SumSq(t)
    \/ RS_Count(t) \/ RS_Unlock(t)

----------------------------------------------------------------------------
(* MovingAverageStatistics::GetStatistics, moving_average.cpp 67-85 *)

GS_Lock(t) ==
    /\ At(t, "gs_lock")
    /\ AggMutexFree
    /\ agg_mutex' = t
    /\ local' = [local EXCEPT ![t].to_return = DefaultStatisticData,
                              ![t].seen_hist = hist]
    /\ Go(t, "gs_check")
    /\ UNCHANGED <<collected_data_, colVars, perVars, op, ghostVars>>

GS_Check(t) ==
    /\ At(t, "gs_check")
    /\ IF collected_data_.count_ = 0 THEN Go(t, "gs_unlock") ELSE Go(t, "gs_count")
    /\ UNCHANGED <<aggVars, colVars, perVars, op, local, ghostVars>>

GS_Count(t) ==
    /\ At(t, "gs_count")
    /\ local' = [local EXCEPT ![t].to_return.sample_count = collected_data_.count_]
    /\ Go(t, "gs_average")
    /\ UNCHANGED <<aggVars, colVars, perVars, op, ghostVars>>

GS_Average(t) ==
    /\ At(t, "gs_average")
    /\ local' = [local EXCEPT ![t].to_return.average = collected_data_.average_]
    /\ Go(t, "gs_min")
    /\ UNCHANGED <<aggVars, colVars, perVars, op, ghostVars>>

GS_Min(t) ==
    /\ At(t, "gs_min")
    /\ local' = [local EXCEPT ![t].to_return.min = collected_data_.min_]
    /\ Go(t, "gs_max")
    /\ UNCHANGED <<aggVars, colVars, perVars, op, ghostVars>>

GS_Max(t) ==
    /\ At(t, "gs_max")
    /\ local' = [local EXCEPT ![t].to_return.max = collected_data_.max_]
    /\ Go(t, "gs_stddev")
    /\ UNCHANGED <<aggVars, colVars, perVars, op, ghostVars>>

GS_StdDev(t) ==
    /\ At(t, "gs_stddev")
    /\ local' = [local EXCEPT ![t].to_return.standard_deviation =
                                   StandardDeviationOf(collected_data_)]
    /\ Go(t, "gs_unlock")
    /\ UNCHANGED <<aggVars, colVars, perVars, op, ghostVars>>

GS_Unlock(t) ==
    /\ At(t, "gs_unlock")
    /\ agg_mutex' = NoThread
    /\ Go(t, AfterGetStatistics(t))
    /\ local' = [local EXCEPT ![t].order = IF @ = "results_first" THEN "none" ELSE @]
    /\ UNCHANGED <<collected_data_, colVars, perVars, op, ghostVars>>

GetStatistics(t) ==
    \/ GS_Lock(t) \/ GS_Check(t) \/ GS_Count(t) \/ GS_Average(t) \/ GS_Min(t)
    \/ GS_Max(t) \/ GS_StdDev(t) \/ GS_Unlock(t)

----------------------------------------------------------------------------
(* MovingAverageStatistics::GetCount, moving_average.cpp 125-129 *)

GC_Lock(t) ==
    /\ At(t, "gc_lock")
    /\ AggMutexFree
    /\ agg_mutex' = t
    /\ Go(t, "gc_read")
    /\ UNCHANGED <<collected_data_, colVars, perVars, op, local, ghostVars>>

GC_Read(t) ==
    /\ At(t, "gc_read")
    /\ local' = [local EXCEPT ![t].count = collected_data_.count_]
    /\ Go(t, "gc_unlock")
    /\ UNCHANGED <<aggVars, colVars, perVars, op, ghostVars>>

GC_Unlock(t) ==
    /\ At(t, "gc_unlock")
    /\ agg_mutex' = NoThread
    /\ Go(t, "done")
    /\ UNCHANGED <<collected_data_, colVars, perVars, op, local, ghostVars>>

GetCount(t) == GC_Lock(t) \/ GC_Read(t) \/ GC_Unlock(t)

----------------------------------------------------------------------------
(* The callers of the aggregator *)

\* the observations a caller may hand in
Items == {Num(i) : i \in -MaxAbs..MaxAbs} \cup {NaN}
\* the observations handed in where threads run concurrently
ConcItems == {Num(-1), Num(2)}

\* thread t begins operation o at statement l
Begin(t, o, l) ==
    /\ At(t, "idle")
    /\ op' = [op EXCEPT ![t] = o]
    /\ Go(t, l)

\* AddMeasurement(x) for some x of S, while fewer than max calls ran since the last reset
CallAdd(t, o, S, max) ==
    /\ Len(hist) + Cardinality(Adding) < max
    /\ Begin(t, o, "am_lock")
    /\ \E x \in S : local' = [local EXCEPT ![t] = [DefaultLocal EXCEPT !.item = x,
                                                    !.after_start = live_start]]
    /\ UNCHANGED <<aggVars, colVars, perVars, ghostVars>>

Call_AddMeasurement(t) == CallAdd(t, "AddMeasurement", Items, MaxObs)

\* the same call where threads run concurrently
Call_AddMeasurementConc(t) == CallAdd(t, "AddMeasurement", ConcItems, MaxConcObs)

Call_Reset(t) ==
    /\ Begin(t, "Reset", "rs_lock")
    /\ local' = [local EXCEPT ![t] = DefaultLocal]
    /\ UNCHANGED <<aggVars, colVars, perVars, ghostVars>>

Call_GetStatistics(t) ==
    /\ Begin(t, "GetStatistics", "gs_lock")
    /\ local' = [local EXCEPT ![t] = DefaultLocal]
    /\ UNCHANGED <<aggVars, colVars, perVars, ghostVars>>

Call_GetCount(t) ==
    /\ Begin(t, "GetCount", "gc_lock")
    /\ local' = [local EXCEPT ![t] = DefaultLocal]
    /\ UNCHANGED <<aggVars, colVars, perVars, ghostVars>>

\* the operation has returned; the thread is free to call the next one
Return(t) ==
    /\ At(t, "done")
    /\ Go(t, "idle")
    /\ op' = [op EXCEPT ![t] = "none"]
    /\ local' = [local EXCEPT ![t] = DefaultLocal]
    /\ last_call' = IF op[t] \in {"Start", "Stop"} /\ t \in SeqThreads
                    THEN [op |-> op[t], ret |-> local[t].ret, hook |-> local[t].hook]
                    ELSE last_call
    /\ UNCHANGED <<aggVars, colVars, perVars, hist, dirty, live_start, kept,
                   first_pending, clock, delivered>>

----------------------------------------------------------------------------
(* The state after construction *)

Init ==
    /\ collected_data_ = InitialAggregate
    /\ agg_mutex = NoThread
    /\ started_ = FALSE
    /\ mutex_ = NoThread
    /\ time_last_message_received_ = kUninitializedTime
    /\ period_mutex = NoThread
    /\ pc = [t \in Threads |-> "idle"]
    /\ op = [t \in Threads |-> "none"]
    /\ local = [t \in Threads |-> DefaultLocal]
    /\ hist = <<>>
    /\ dirty = FALSE
    /\ last_call = NoCall
    /\ live_start = FALSE
    /\ kept = 0
    /\ first_pending = "no"
    /\ delivered = <<>>
    /\ clock = 0

----------------------------------------------------------------------------
(* The aggregator used by one thread *)

AggSteps(t) ==
    \/ Call_Reset(t) \/ Call_GetStatistics(t) \/ Call_GetCount(t)
    \/ AddMeasurement(t) \/ Reset(t) \/ GetStatistics(t) \/ GetCount(t)
    \/ Return(t)

NextAggSeq == \E t \in SeqThreads : Call_AddMeasurement(t) \/ AggSteps(t)

SpecAggSeq == Init /\ [][NextAggSeq]_vars

(* The aggregator shared by all threads *)

NextAgg == \E t \in Threads : Call_AddMeasurementConc(t) \/ AggSteps(t)

SpecAgg == Init /\ [][NextAgg]_vars

----------------------------------------------------------------------------
(* Reference computations over a sequence of observations *)

\* thread t's call of operation o has returned
Returned(t, o) == pc[t] = "done" /\ op[t] = o

\* the entries of s that are not NaN, in order
Observations(s) == SelectSeq(s, LAMBDA x : ~isnan(x))

Range(s) == {s[i] : i \in 1..Len(s)}

RECURSIVE SumOf(_)
SumOf(s) == IF s = <<>> THEN Num(0) ELSE FAdd(s[1], SumOf(Tail(s)))

\* first pass: the arithmetic mean
MeanOf(s) == FDivCount(SumOf(s), Len(s))

\* second pass: the sum of the squared differences from that mean
SumSqDiffOf(s) ==
    SumOf([i \in 1..Len(s) |-> FMul(FSub(s[i], MeanOf(s)), FSub(s[i], MeanOf(s)))])

LeastOf(s)    == CHOOSE x \in Range(s) : \A y \in Range(s) : ~FLess(y, x)
GreatestOf(s) == CHOOSE x \in Range(s) : \A y \in Range(s) : ~FLess(x, y)

\* the aggregate after the calls AddMeasurement(s[1]), ..., AddMeasurement(s[n]) run one
\* after another on a reset aggregate
RECURSIVE AggregateAfter(_)
AggregateAfter(s) ==
    IF s = <<>> THEN InitialAggregate
    ELSE AddMeasurementOf(AggregateAfter(SubSeq(s, 1, Len(s) - 1)), s[Len(s)])

----------------------------------------------------------------------------
(* The aggregator used by one thread: SpecAggSeq *)

\* C3 (as claimed): after a non-empty sequence of non-NaN observations,
\* GetStatistics() returns min = the least and max = the greatest observation
C3_MinMaxAreExtremes ==
    \A t \in SeqThreads :
        LET obs == Observations(local[t].seen_hist)
        IN  (Returned(t, "GetStatistics") /\ obs # <<>>) =>
                /\ local[t].to_return.min = LeastOf(obs)
                /\ local[t].to_return.max = GreatestOf(obs)

\* C4: no step of AddMeasurement(NaN) changes any of the five fields, and a snapshot
\* is the snapshot of the same calls with the NaN ones left out
C4_NaNIsNoOp ==
    /\ [][\A t \in SeqThreads :
            (op[t] = "AddMeasurement" /\ isnan(local[t].item)) =>
                collected_data_' = collected_data_]_vars
    /\ [](\A t \in SeqThreads :
            Returned(t, "GetStatistics") =>
                local[t].to_return =
                    GetStatisticsOf(AggregateAfter(Observations(local[t].seen_hist))))

\* C4's case: AddMeasurement(NaN) ran between two observations, and the snapshot of
\* [2, NaN, 2] has count 2, average 2, standard deviation 0
C4_Witness ==
    \E t \in SeqThreads :
        /\ Returned(t, "GetStatistics")
        /\ local[t].seen_hist = <<Num(2), NaN, Num(2)>>
        /\ local[t].to_return.sample_count = 2
        /\ local[t].to_return.average = Num(2)
        /\ local[t].to_return.standard_deviation = Num(0)

\* C5: with nothing added since construction or since the last Reset(), GetStatistics()
\* returns sample_count 0 and NaN in the four other fields, and GetCount() returns 0
C5_EmptyAfterReset ==
    \A t \in SeqThreads :
        /\ (Returned(t, "GetStatistics") /\ local[t].seen_hist = <<>>) =>
                /\ local[t].to_return.sample_count = 0
                /\ isnan(local[t].to_return.average)
                /\ isnan(local[t].to_return.min)
                /\ isnan(local[t].to_return.max)
                /\ isnan(local[t].to_return.standard_deviation)
        /\ (Returned(t, "GetCount") /\ hist = <<>>) => local[t].count = 0

\* C5's case: observations were accepted, Reset() ran, and GetStatistics() has returned
C5_Witness ==
    \E t \in SeqThreads :
        Returned(t, "GetStatistics") /\ local[t].seen_hist = <<>> /\ dirty

\* C6: after the non-NaN observations x1..xn, n >= 1, count = n, mean = (x1+...+xn)/n,
\* sum_sq_diff = sum of (xi - mean)^2, and the snapshot reports these with
\* standard_deviation = sqrt(sum_sq_diff / n): the two-pass result, whatever the order
C6_MatchesTwoPass ==
    \A t \in SeqThreads :
        /\ LET obs == Observations(hist)
           IN  (Returned(t, "AddMeasurement") /\ obs # <<>>) =>
                /\ collected_data_.count_ = Len(obs)
                /\ collected_data_.average_ = MeanOf(obs)
                /\ collected_data_.sum_of_square_diff_from_mean_ = SumSqDiffOf(obs)
        /\ LET obs == Observations(local[t].seen_hist)
           IN  (Returned(t, "GetStatistics") /\ obs # <<>>) =>
                /\ local[t].to_return.sample_count = Len(obs)
                /\ local[t].to_return.average = MeanOf(obs)
                /\ local[t].to_return.standard_deviation =
                        StdSqrt(FDivCount(SumSqDiffOf(obs), Len(obs)))

\* C6's case: the snapshot of [1, 2, 3] is average 2, min 1, max 3, variance 2/3, count 3
C6_Witness ==
    \E t \in SeqThreads :
        /\ Returned(t, "GetStatistics")
        /\ local[t].seen_hist = <<Num(1), Num(2), Num(3)>>
        /\ local[t].to_return =
              [sample_count |-> 3, average |-> Num(2), min |-> Num(1), max |-> Num(3),
               standard_deviation |-> [k |-> "sqrt", n |-> 2, d |-> 3]]

----------------------------------------------------------------------------
(* The aggregator shared by concurrent threads: SpecAgg *)

\* C7: every snapshot GetStatistics() returns is the snapshot of the aggregate after the
\* AddMeasurement calls that had completed since the last completed Reset() when
\* GetStatistics() took the lock, all five fields from that one state
C7_SnapshotIsNotABlend ==
    \A t \in Threads :
        Returned(t, "GetStatistics") =>
            local[t].to_return =
                GetStatisticsOf(AggregateAfter(Observations(local[t].seen_hist)))

\* C7's case: a snapshot of one observation was returned, and before its caller went on
\* another thread is in the middle of AddMeasurement
C7_Witness ==
    \E t \in Threads, u \in Threads :
        /\ Returned(t, "GetStatistics")
        /\ local[t].to_return.sample_count = 1
        /\ op[u] = "AddMeasurement" /\ pc[u] \in {"am_isnan", "am_count", "am_previous"}

----------------------------------------------------------------------------
(* Collector: the statements *)

\* a slip: no mutual exclusion
MutexFree_NoExclusion == TRUE

\* std::unique_lock<std::mutex> ulock{mutex_} returns only when nobody owns mutex_
MutexFree == mutex_ = NoThread

\* a slip: the transition left out
StartTransition_Forgotten == started_

\* Start: started_ = true
StartTransition == TRUE

\* a slip: the transition left out
StopTransition_Forgotten == started_

\* Stop: started_ = false
StopTransition == FALSE

\* a slip: the measurements cleared only when the stop hook succeeded
AfterStopUnlock_OnlyOnSuccess(t) == IF local[t].ret THEN "rs_lock" ELSE "stop_return"

\* Stop: after the lock's scope, ClearCurrentMeasurements() and so Reset()
AfterStopUnlock(t) == "rs_lock"

\* what a hook returned
HookResult(b) == IF b THEN "true" ELSE "false"

\* the statements of Stop() that follow its transition
StopAfterTransition ==
    {"sp_hook", "sp_unlock", "rs_lock", "rs_average", "rs_min", "rs_max", "rs_sumsq",
     "rs_count", "rs_unlock"}

----------------------------------------------------------------------------
(* Collector::Start, collector.cpp 34-49 *)

ST_Lock(t) ==
    /\ At(t, "st_lock")
    /\ MutexFree
    /\ mutex_' = t
    /\ local' = [local EXCEPT ![t].raced = \E u \in Threads \ {t} : pc[u] = "st_lock"]
    /\ Go(t, "st_check")
    /\ UNCHANGED <<aggVars, started_, perVars, op, ghostVars>>

ST_Check(t) ==
    /\ At(t, "st_check")
    /\ IF started_
       THEN /\ local' = [local EXCEPT ![t].ret = FALSE]
            /\ Go(t, "st_unlock")
       ELSE /\ UNCHANGED local
            /\ Go(t, "st_set")
    /\ UNCHANGED <<aggVars, colVars, perVars, op, ghostVars>>

ST_Set(t) ==
    /\ At(t, "st_set")
    /\ started_' = StartTransition
    /\ local' = Witnessed(local, started_', Len(SelectSeq(hist, LAMBDA x : ~isnan(x))))
    /\ Go(t, "st_hook")
    /\ UNCHANGED <<aggVars, mutex_, perVars, op, ghostVars>>

\* SetupStart() of some specialisation: it returns true or false
ST_Hook(t) ==
    /\ At(t, "st_hook")
    /\ \E b \in BOOLEAN :
          local' = [local EXCEPT ![t].ret = b, ![t].hook = HookResult(b)]
    /\ Go(t, "st_unlock")
    /\ UNCHANGED <<aggVars, colVars, perVars, op, ghostVars>>

\* the return: ulock's destructor releases mutex_
ST_Unlock(t) ==
    /\ At(t, "st_unlock")
    /\ mutex_' = NoThread
    /\ Go(t, "done")
    /\ LET made == local[t].hook # "none"      \* this call made the transition
       IN  /\ live_start' = (live_start \/ made)
           /\ first_pending' = IF made /\ local[t].ret
                              THEN IF local[t].overlapped THEN "overlapped" ELSE "alone"
                              ELSE first_pending
           /\ local' = [u \in Threads |->
                          IF made /\ op[u] = "Stop" /\ pc[u] \in StopAfterTransition
                          THEN [local[u] EXCEPT !.restarted = TRUE]
                          ELSE local[u]]
    /\ UNCHANGED <<aggVars, started_, perVars, op, hist, dirty, last_call, kept, clock, delivered>>

Start(t) == ST_Lock(t) \/ ST_Check(t) \/ ST_Set(t) \/ ST_Unlock(t)

----------------------------------------------------------------------------
(* Collector::Stop, collector.cpp 57-81 *)

SP_Lock(t) ==
    /\ At(t, "sp_lock")
    /\ MutexFree
    /\ mutex_' = t
    /\ Go(t, "sp_check")
    /\ UNCHANGED <<aggVars, started_, perVars, op, local, ghostVars>>

SP_Check(t) ==
    /\ At(t, "sp_check")
    /\ IF ~started_ THEN Go(t, "sp_return_false") ELSE Go(t, "sp_set")
    /\ UNCHANGED <<aggVars, colVars, perVars, op, local, ghostVars>>

\* return false, from inside the lock's scope: nothing is cleared
SP_ReturnFalse(t) ==
    /\ At(t, "sp_return_false")
    /\ mutex_' = NoThread
    /\ local' = [local EXCEPT ![t].ret = FALSE]
    /\ Go(t, "done")
    /\ UNCHANGED <<aggVars, started_, perVars, op, ghostVars>>

SP_Set(t) ==
    /\ At(t, "sp_set")
    /\ started_' = StopTransition
    /\ live_start' = FALSE
    /\ kept' = 0
    /\ local' = Witnessed([u \in Threads |-> [local[u] EXCEPT
                                                 !.after_start = FALSE,
                                                 !.stopped_since = (op[u] = "Start")]],
                          started_', Len(SelectSeq(hist, LAMBDA x : ~isnan(x))))
    /\ Go(t, "sp_hook")
    /\ UNCHANGED <<aggVars, mutex_, perVars, op, hist, dirty, last_call, first_pending,
                   clock, delivered>>

\* SetupStop() of some specialisation: it returns true or false
SP_Hook(t) ==
    /\ At(t, "sp_hook")
    /\ \E b \in BOOLEAN :
          local' = [local EXCEPT ![t].ret = b, ![t].hook = HookResult(b)]
    /\ Go(t, "sp_unlock")
    /\ UNCHANGED <<aggVars, colVars, perVars, op, ghostVars>>

\* the end of the lock's scope; ClearCurrentMeasurements() follows
SP_Unlock(t) ==
    /\ At(t, "sp_unlock")
    /\ mutex_' = NoThread
    /\ Go(t, AfterStopUnlock(t))
    /\ UNCHANGED <<aggVars, started_, perVars, op, local, ghostVars>>

\* return ret, after ClearCurrentMeasurements()
SP_Return(t) ==
    /\ At(t, "stop_return")
    /\ Go(t, "done")
    /\ UNCHANGED <<aggVars, colVars, perVars, op, local, ghostVars>>

Stop(t) ==
    \/ SP_Lock(t) \/ SP_Check(t) \/ SP_ReturnFalse(t) \/ SP_Set(t) \/ SP_Unlock(t)
    \/ SP_Return(t)

----------------------------------------------------------------------------
(* Collector::IsStarted, collector.cpp 114-120 *)

IS_Lock(t) ==
    /\ At(t, "is_lock")
    /\ MutexFree
    /\ mutex_' = t
    /\ Go(t, "is_read")
    /\ UNCHANGED <<aggVars, started_, perVars, op, local, ghostVars>>

IS_Read(t) ==
    /\ At(t, "is_read")
    /\ local' = [local EXCEPT ![t].ret = started_]
    /\ Go(t, "is_unlock")
    /\ UNCHANGED <<aggVars, colVars, perVars, op, ghostVars>>

IS_Unlock(t) ==
    /\ At(t, "is_unlock")
    /\ mutex_' = NoThread
    /\ Go(t, AfterIsStarted(t))
    /\ local' = [local EXCEPT ![t].order = IF @ = "started_first" THEN "none" ELSE @]
    /\ UNCHANGED <<aggVars, started_, perVars, op, ghostVars>>

IsStarted(t) == IS_Lock(t) \/ IS_Read(t) \/ IS_Unlock(t)

----------------------------------------------------------------------------
(* The callers of the collector *)

CallLifecycle(t, o, l) ==
    /\ Begin(t, o, l)
    /\ local' = [local EXCEPT ![t] = [DefaultLocal EXCEPT !.overlapped = HandlerRunning]]
    /\ UNCHANGED <<aggVars, colVars, perVars, ghostVars>>

Call_Start(t) == CallLifecycle(t, "Start", "st_lock")

Call_Stop(t) == CallLifecycle(t, "Stop", "sp_lock")

\* Collector::AcceptData, collector.cpp 88-91: collected_data_.AddMeasurement(measurement)
Call_AcceptData(t) == CallAdd(t, "AcceptData", ConcItems, MaxConcObs)

\* Collector::GetStatisticsResults, collector.cpp 98-101: collected_data_.GetStatistics()
Call_GetStatisticsResults(t) ==
    /\ Begin(t, "GetStatisticsResults", "gs_lock")
    /\ local' = [local EXCEPT ![t] = DefaultLocal]
    /\ UNCHANGED <<aggVars, colVars, perVars, ghostVars>>

\* Collector::ClearCurrentMeasurements, collector.cpp 106: collected_data_.Reset()
Call_ClearCurrentMeasurements(t) ==
    /\ Begin(t, "ClearCurrentMeasurements", "rs_lock")
    /\ local' = [local EXCEPT ![t] = DefaultLocal]
    /\ UNCHANGED <<aggVars, colVars, perVars, ghostVars>>

Call_IsStarted(t) ==
    /\ Begin(t, "IsStarted", "is_lock")
    /\ local' = [local EXCEPT ![t] = DefaultLocal]
    /\ UNCHANGED <<aggVars, colVars, perVars, ghostVars>>

\* Collector::GetStatusString, collector.cpp 127-136: the operands IsStarted() and
\* GetStatisticsResults() of the << chain, in either order of evaluation
CallGetStatusString(t, J) ==
    /\ \E o \in {"started_first", "results_first"} :
          /\ Begin(t, "GetStatusString", IF o = "started_first" THEN "is_lock" ELSE "gs_lock")
          /\ local' = [local EXCEPT ![t] = [DefaultLocal EXCEPT !.order = o, !.joint = J]]
    /\ UNCHANGED <<aggVars, colVars, perVars, ghostVars>>

Call_GetStatusString(t) == CallGetStatusString(t, {})

\* the same call, keeping the history of the pairs the collector holds while it runs
Call_GetStatusStringObserved(t) ==
    CallGetStatusString(t, {<<started_, Len(SelectSeq(hist, LAMBDA x : ~isnan(x)))>>})

LifecycleSteps(t) ==
    \/ Call_Start(t) \/ Call_Stop(t) \/ Call_AcceptData(t)
    \/ Start(t) \/ ST_Hook(t) \/ Stop(t) \/ SP_Hook(t)
    \/ AddMeasurement(t) \/ Reset(t)
    \/ Return(t)

QuerySteps(t) ==
    \/ Call_GetStatisticsResults(t) \/ Call_ClearCurrentMeasurements(t) \/ Call_IsStarted(t)
    \/ IsStarted(t) \/ GetStatistics(t)

(* A collector, with hooks that may fail, used by one thread *)

NextColSeq == \E t \in SeqThreads : LifecycleSteps(t) \/ QuerySteps(t)

SpecColSeq == Init /\ [][NextColSeq]_vars

(* Start, Stop and AcceptData of the same collector called by concurrent threads *)

NextCol == \E t \in ConcThreads : LifecycleSteps(t)

SpecCol == Init /\ [][NextCol]_vars

----------------------------------------------------------------------------
(* The collector used by one thread: SpecColSeq *)

C2_StartStopAlternate ==
    \A t \in SeqThreads :
        (pc[t] = "done" /\ local[t].hook # "false") =>
            /\ op[t] = "Start" => (local[t].ret <=> last_call.op # "Start")
            /\ op[t] = "Stop"  => (local[t].ret <=> last_call.op = "Start")

\* C2's case: Stop() returned true and the next Stop() has returned false
C2_Witness ==
    \E t \in SeqThreads :
        /\ Returned(t, "Stop") /\ ~local[t].ret
        /\ last_call.op = "Stop" /\ last_call.ret

----------------------------------------------------------------------------
(* Start, Stop and AcceptData called concurrently: SpecCol *)

\* C8 (as claimed): when the Reset() of a Stop() lands after a Start() that followed
\* that Stop()'s transition has returned, it clears no observation whose AcceptData()
\* began after that Start() returned
C8_StopResetSparesRestartedWindow ==
    \A t \in ConcThreads :
        (op[t] = "Stop" /\ pc[t] = "rs_unlock" /\ local[t].restarted) => kept = 0

----------------------------------------------------------------------------
(* ReceivedMessagePeriodCollector: the statements *)

\* a slip: a handler that takes no lock
PeriodMutexFree_NoExclusion == TRUE

\* std::unique_lock<std::mutex> ulock{mutex_} returns only when nobody owns the adapter's mutex_
PeriodMutexFree == period_mutex = NoThread

\* std::chrono::duration<double, std::milli>(nanos).count()
PeriodOf_Nanoseconds(nanos) == Num(nanos)
PeriodOf(nanos) == Fin(nanos, NanosPerMilli)

\* ResetTimeLastMessageReceived(): what time_last_message_received_ is set to
ResetTimeLast_Kept == time_last_message_received_
ResetTimeLastMessageReceived == kUninitializedTime

\* the receipt times: multiples of 50000 ns, so that the periods stay small fractions
Times == {50000 * k : k \in 0..MaxTicks}

\* the receipt times of events handled one after another: a zero stamp and the
\* stamps of three events half a millisecond and one millisecond apart
SequenceTimes == {0, 1000000, 1500000, 2500000}

\* the statements of OnMessageReceived and of the start hook that read or write
\* time_last_message_received_
AccessesTimeLast(t) ==
    \/ op[t] = "OnMessageReceived" /\ pc[t] \in {"omr_test", "omr_first", "omr_nanos", "omr_update"}
    \/ op[t] = "Start" /\ pc[t] = "st_hook"

----------------------------------------------------------------------------
(* ReceivedMessagePeriodCollector::OnMessageReceived, received_message_period.hpp 62-84 *)

OMR_Lock(t) ==
    /\ At(t, "omr_lock")
    /\ PeriodMutexFree
    /\ period_mutex' = t
    /\ first_pending' = "no"
    /\ local' = [local EXCEPT ![t].first_after_start =
                                  (first_pending # "no" /\ local[t].began_after_start),
                              ![t].alone_start = (first_pending = "alone")]
    /\ Go(t, "omr_test")
    /\ UNCHANGED <<aggVars, colVars, time_last_message_received_, op, hist, dirty,
                   last_call, live_start, kept, clock, delivered>>

\* if (time_last_message_received_ == kUninitializedTime)
OMR_Test(t) ==
    /\ At(t, "omr_test")
    /\ local' = [local EXCEPT ![t].last_seen = time_last_message_received_]
    /\ IF time_last_message_received_ = kUninitializedTime
       THEN Go(t, "omr_first") ELSE Go(t, "omr_nanos")
    /\ UNCHANGED <<aggVars, colVars, perVars, op, ghostVars>>

\* time_last_message_received_ = now_nanoseconds
OMR_First(t) ==
    /\ At(t, "omr_first")
    /\ time_last_message_received_' = local[t].now_nanoseconds
    /\ local' = [local EXCEPT ![t].recorded = "baseline"]
    /\ Go(t, "omr_unlock")
    /\ UNCHANGED <<aggVars, colVars, period_mutex, op, ghostVars>>

\* nanos{now_nanoseconds - time_last_message_received_}: the member is read again, or,
\* as an unsynchronised write is a data race, the value the test read is used
OMR_Nanos(t) ==
    /\ At(t, "omr_nanos")
    /\ \E last \in {time_last_message_received_, local[t].last_seen} :
          local' = [local EXCEPT ![t].nanos = local[t].now_nanoseconds - last]
    /\ Go(t, "omr_update")
    /\ UNCHANGED <<aggVars, colVars, perVars, op, ghostVars>>

\* time_last_message_received_ = now_nanoseconds
OMR_Update(t) ==
    /\ At(t, "omr_update")
    /\ time_last_message_received_' = local[t].now_nanoseconds
    /\ Go(t, "omr_accept")
    /\ UNCHANGED <<aggVars, colVars, period_mutex, op, local, ghostVars>>

\* collector::Collector::AcceptData(static_cast<double>(period.count()))
OMR_Accept(t) ==
    /\ At(t, "omr_accept")
    /\ local' = [local EXCEPT ![t].item = PeriodOf(local[t].nanos),
                              ![t].recorded = "period"]
    /\ Go(t, "am_lock")
    /\ UNCHANGED <<aggVars, colVars, perVars, op, ghostVars>>

OMR_Unlock(t) ==
    /\ At(t, "omr_unlock")
    /\ period_mutex' = NoThread
    /\ delivered' = IF local[t].in_sequence
                    THEN Append(delivered, [now |-> local[t].now_nanoseconds,
                                            recorded |-> local[t].recorded,
                                            period |-> local[t].item])
                    ELSE delivered
    /\ Go(t, "done")
    /\ UNCHANGED <<aggVars, colVars, time_last_message_received_, op, local, hist, dirty,
                   last_call, live_start, kept, first_pending, clock>>

OnMessageReceived(t) ==
    \/ OMR_Lock(t) \/ OMR_Test(t) \/ OMR_First(t) \/ OMR_Nanos(t) \/ OMR_Update(t)
    \/ OMR_Accept(t) \/ OMR_Unlock(t)

----------------------------------------------------------------------------
(* ReceivedMessagePeriodCollector's hooks, received_message_period.hpp 113-138 *)

\* SetupStart(): ResetTimeLastMessageReceived(); return true.  It runs inside Start(),
\* which holds Collector::mutex_ and not the adapter's mutex_
ST_HookPeriod(t) ==
    /\ At(t, "st_hook")
    /\ time_last_message_received_' = ResetTimeLastMessageReceived
    /\ local' = [local EXCEPT ![t].ret = TRUE, ![t].hook = HookResult(TRUE),
                              ![t].stale = (time_last_message_received_ # kUninitializedTime)]
    /\ delivered' = <<>>
    /\ Go(t, "st_unlock")
    /\ UNCHANGED <<aggVars, colVars, period_mutex, op, hist, dirty, last_call, live_start,
                   kept, first_pending, clock>>

\* a slip: a stop hook that forgets the last receipt time as the start hook does
SP_HookPeriod_ResetsTime(t) ==
    /\ At(t, "sp_hook")
    /\ time_last_message_received_' = kUninitializedTime
    /\ local' = [local EXCEPT ![t].ret = TRUE, ![t].hook = HookResult(TRUE)]
    /\ Go(t, "sp_unlock")
    /\ UNCHANGED <<aggVars, colVars, period_mutex, op, ghostVars>>

\* SetupStop(): return true
SP_HookPeriod(t) ==
    /\ At(t, "sp_hook")
    /\ local' = [local EXCEPT ![t].ret = TRUE, ![t].hook = HookResult(TRUE)]
    /\ Go(t, "sp_unlock")
    /\ UNCHANGED <<aggVars, colVars, perVars, op, ghostVars>>

----------------------------------------------------------------------------
(* The callers of the period adapter *)

\* an event is delivered with a receipt time that is not before the latest one
CallOnMessageReceived(t, T, max) ==
    /\ Len(hist) + Cardinality(Adding) < max
    /\ Begin(t, "OnMessageReceived", "omr_lock")
    /\ \E now \in T :
          /\ now >= clock
          /\ clock' = now
          /\ local' = [u \in Threads |->
                         IF u = t
                         THEN [DefaultLocal EXCEPT !.now_nanoseconds = now,
                                                   !.began_after_start = (first_pending # "no")]
                         ELSE IF op[u] = "Start" /\ pc[u] # "done"
                              THEN [local[u] EXCEPT !.overlapped = TRUE]
                              ELSE local[u]]
    /\ UNCHANGED <<aggVars, colVars, perVars, hist, dirty, last_call, live_start, kept,
                   first_pending, delivered>>

Call_OnMessageReceived(t) == CallOnMessageReceived(t, Times, MaxPeriodObs)

PeriodSteps(t) ==
    \/ Call_OnMessageReceived(t) \/ Call_Start(t) \/ Call_Stop(t)
    \/ OnMessageReceived(t)
    \/ Start(t) \/ ST_HookPeriod(t) \/ Stop(t) \/ SP_HookPeriod(t)
    \/ AddMeasurement(t) \/ Reset(t)
    \/ Return(t)

(* A period adapter whose handler, Start and Stop are called by concurrent threads *)

NextPer == \E t \in ConcThreads : PeriodSteps(t)

SpecPer == Init /\ [][NextPer]_vars

----------------------------------------------------------------------------
(* The period adapter shared by concurrent threads: SpecPer *)

\* C9 (as claimed): a thread that is about to read or write
\* time_last_message_received_ holds the adapter's lock
C9_TimeLastGuardedByAdapterLock ==
    \A t \in ConcThreads : AccessesTimeLast(t) => period_mutex = t

\* C10 (as claimed): the handler that began after a Start() had returned true, and is
\* the first to run since, records no observation, whether or not a handler ran during
\* that Start()
C10_FirstEventAfterStartIsBaseline ==
    \A t \in ConcThreads :
        (Returned(t, "OnMessageReceived") /\ local[t].first_after_start) =>
            local[t].recorded = "baseline"

\* C10 (amended): provided no handler ran during the Start(), the handler that began
\* after the Start() had returned true, and is the first to run since, records no
\* observation: it finds the time uninitialized and only establishes the baseline
C10_FirstEventAfterLoneStartIsBaseline ==
    \A t \in ConcThreads :
        (Returned(t, "OnMessageReceived") /\ local[t].first_after_start
                                          /\ local[t].alone_start) =>
            /\ local[t].recorded = "baseline"
            /\ local[t].last_seen = kUninitializedTime

\* a Start() during which no handler ran erased the baseline of an earlier event, and the
\* first handler after it has only established the new baseline
C10_Witness ==
    \E t \in ConcThreads, u \in ConcThreads :
        /\ Returned(t, "OnMessageReceived")
        /\ local[t].first_after_start /\ local[t].alone_start
        /\ local[t].recorded = "baseline"
        /\ time_last_message_received_ = local[t].now_nanoseconds
        /\ Returned(u, "Start") /\ local[u].ret /\ local[u].stale /\ ~local[u].overlapped

----------------------------------------------------------------------------
(* A period adapter whose handler, Start and Stop are called one after another: SpecPerSeq *)

\* an event of a sequence is delivered, its receipt time not before the latest one
CallOnMessageReceivedSeq(t, T) ==
    /\ Len(delivered) < MaxEvents
    /\ Begin(t, "OnMessageReceived", "omr_lock")
    /\ \E now \in T :
          /\ now >= clock
          /\ clock' = now
          /\ local' = [local EXCEPT ![t] = [DefaultLocal EXCEPT
                                               !.now_nanoseconds = now,
                                               !.in_sequence = TRUE,
                                               !.began_after_start = (first_pending # "no")]]
    /\ UNCHANGED <<aggVars, colVars, perVars, hist, dirty, last_call, live_start, kept,
                   first_pending, delivered>>

Call_OnMessageReceivedSeq(t) == CallOnMessageReceivedSeq(t, SequenceTimes)

PeriodSeqSteps(t) ==
    \/ Call_OnMessageReceivedSeq(t) \/ Call_Start(t) \/ Call_Stop(t)
    \/ OnMessageReceived(t)
    \/ Start(t) \/ ST_HookPeriod(t) \/ Stop(t) \/ SP_HookPeriod(t)
    \/ AddMeasurement(t) \/ Reset(t)
    \/ Return(t)

NextPerSeq == \E t \in SeqThreads : PeriodSeqSteps(t)

SpecPerSeq == Init /\ [][NextPerSeq]_vars

\* the periods the events of a sequence recorded, in order
PeriodsOf(ev) ==
    LET kept_ev == SelectSeq(ev, LAMBDA e : e.recorded = "period")
    IN  [i \in 1..Len(kept_ev) |-> kept_ev[i].period]

\* the last n entries of a sequence
LastOf(q, n) == SubSeq(q, Len(q) - n + 1, Len(q))

\* C11: of n events with non-zero receipt times handled one after another by a fresh or
\* freshly started period adapter, the first records nothing and the i-th of the n - 1
\* others records t(i) - t(i-1) nanoseconds in milliseconds, which reaches the aggregator;
\* once an event is handled the last-received time is its receipt time
C11_PeriodsAreSuccessiveDifferences ==
    LET n == Len(delivered)
    IN  (\A i \in 1..n : delivered[i].now # 0) =>
            /\ \A i \in 1..n :
                  IF i = 1
                  THEN delivered[i].recorded = "baseline"
                  ELSE /\ delivered[i].recorded = "period"
                       /\ delivered[i].period =
                              Fin(delivered[i].now - delivered[i - 1].now, 1000000)
            /\ (n >= 1) => Len(PeriodsOf(delivered)) = n - 1
            /\ (n >= 1 /\ ~HandlerRunning) =>
                  time_last_message_received_ = delivered[n].now
            /\ (n >= 1 /\ ~HandlerRunning
                       /\ last_call.op # "Stop" /\ \A t \in SeqThreads : op[t] # "Stop") =>
                  /\ Len(hist) >= n - 1
                  /\ LastOf(hist, n - 1) = PeriodsOf(delivered)

\* a started adapter has handled events at 1000000, 1500000 and 2500000 ns and recorded
\* 0.5 ms and 1 ms
C11_Witness ==
    /\ started_
    /\ Len(delivered) = 3
    /\ <<delivered[1].now, delivered[2].now, delivered[3].now>> = <<1000000, 1500000, 2500000>>
    /\ PeriodsOf(delivered) = <<Fin(1, 2), Num(1)>>
    /\ time_last_message_received_ = 2500000
    /\ collected_data_.count_ = 2

----------------------------------------------------------------------------
(* ReceivedMessageAgeCollector, received_message_age.hpp 65-168 *)

\* TimeStamp<M>::value(m): (false, 0) for a type without a header, else
\* (true, RCL_S_TO_NS(stamp.sec) + stamp.nanosec)
TimeStampValue(has, st) ==
    IF has THEN [first |-> TRUE, second |-> st.sec * NanosPerSecond + st.nanosec]
    ELSE [first |-> FALSE, second |-> 0]

\* if (timestamp_from_header.first) if (timestamp_from_header.second && now_nanoseconds)
AgeTest_StampOnly(ts, now) == ts.first /\ ts.second # 0
AgeTest(ts, now) == ts.first /\ ts.second # 0 /\ now # 0

\* std::chrono::duration<double, std::milli>(age_nanos).count()
AgeOf(age_nanos) == Fin(age_nanos, NanosPerMilli)

\* the header stamps and the receipt times of the events the age adapter is given
Stamps == {[sec |-> sc, nanosec |-> ns] : sc \in 0..MaxSec, ns \in {0, 1000000}}
AgeTimes == {0, 1000000, 2000000}

\* OnMessageReceived, lines 128-140: it touches locals only until it calls AcceptData
AGE_Handle(t) ==
    /\ At(t, "age_received")
    /\ LET ts == TimeStampValue(local[t].has_header, local[t].stamp)
       IN  IF AgeTest(ts, local[t].now_nanoseconds)
           THEN /\ local' = [local EXCEPT
                      ![t].timestamp_from_header = ts,
                      ![t].item = AgeOf(local[t].now_nanoseconds - ts.second),
                      ![t].recorded = "age"]
                /\ Go(t, "am_lock")
           ELSE /\ local' = [local EXCEPT ![t].timestamp_from_header = ts]
                /\ Go(t, "done")
    /\ UNCHANGED <<aggVars, colVars, perVars, op, ghostVars>>

\* SetupStart() { return true; }
ST_HookAge(t) ==
    /\ At(t, "st_hook")
    /\ local' = [local EXCEPT ![t].ret = TRUE, ![t].hook = HookResult(TRUE)]
    /\ Go(t, "st_unlock")
    /\ UNCHANGED <<aggVars, colVars, perVars, op, ghostVars>>

\* SetupStop() { return true; }
SP_HookAge(t) ==
    /\ At(t, "sp_hook")
    /\ local' = [local EXCEPT ![t].ret = TRUE, ![t].hook = HookResult(TRUE)]
    /\ Go(t, "sp_unlock")
    /\ UNCHANGED <<aggVars, colVars, perVars, op, ghostVars>>

\* an event of a type with or without a header is delivered
CallAge(t, max, S, T) ==
    /\ Len(hist) + Cardinality(Adding) < max
    /\ Begin(t, "AgeOnMessageReceived", "age_received")
    /\ \E has \in BOOLEAN, st \in S, now \in T :
          local' = [local EXCEPT ![t] = [DefaultLocal EXCEPT
                                            !.has_header = has,
                                            !.stamp = st,
                                            !.now_nanoseconds = now,
                                            !.seen_hist = hist,
                                            !.started_before = started_,
                                            !.after_start = live_start]]
    /\ UNCHANGED <<aggVars, colVars, perVars, ghostVars>>

Call_AgeOnMessageReceived(t) == CallAge(t, MaxObs, Stamps, AgeTimes)


(* An age adapter whose handler, Start and Stop are called one after another: SpecAge *)

AgeSteps(t) ==
    \/ Call_AgeOnMessageReceived(t) \/ Call_Start(t) \/ Call_Stop(t)
    \/ AGE_Handle(t)
    \/ Start(t) \/ ST_HookAge(t) \/ Stop(t) \/ SP_HookAge(t)
    \/ AddMeasurement(t) \/ Reset(t)
    \/ Return(t)

NextAge == \E t \in SeqThreads : AgeSteps(t)

SpecAge == Init /\ [][NextAge]_vars

\* the event of a call has a header stamp, and its stamp and its receipt time are not zero
ValidAge(t) ==
    /\ local[t].has_header
    /\ local[t].stamp.sec * 1000000000 + local[t].stamp.nanosec # 0
    /\ local[t].now_nanoseconds # 0

\* C12: the age handler records one observation, the receipt time less the stamp in
\* milliseconds, exactly when the type has a header and the stamp and the receipt time
\* are not zero; otherwise it records nothing and no step of it changes the aggregator,
\* the started flag or the period adapter's state
C12_AgeRecordedIffValid ==
    /\ [][\A t \in SeqThreads :
            (op[t] = "AgeOnMessageReceived" /\ pc[t] # "done" /\ ~ValidAge(t)) =>
                /\ UNCHANGED <<aggVars, colVars, perVars, hist>>
                /\ pc'[t] = "done"]_vars
    /\ [](\A t \in SeqThreads :
            Returned(t, "AgeOnMessageReceived") =>
                /\ started_ = local[t].started_before
                /\ IF ValidAge(t)
                   THEN /\ local[t].recorded = "age"
                        /\ local[t].item =
                              Fin(local[t].now_nanoseconds
                                    - (local[t].stamp.sec * 1000000000 + local[t].stamp.nanosec),
                                  1000000)
                        /\ hist = Append(local[t].seen_hist, local[t].item)
                        /\ collected_data_.count_ = Len(hist)
                   ELSE /\ local[t].recorded = "none"
                        /\ hist = local[t].seen_hist)

\* an event stamped 1000000 ns and received at 2000000 ns has recorded an age of 1 ms,
\* the only observation in the aggregator
C12_Witness ==
    \E t \in SeqThreads :
        /\ Returned(t, "AgeOnMessageReceived")
        /\ local[t].has_header
        /\ local[t].stamp = [sec |-> 0, nanosec |-> 1000000]
        /\ local[t].now_nanoseconds = 2000000
        /\ hist = <<Num(1)>>
        /\ collected_data_.count_ = 1

----------------------------------------------------------------------------
(* Hooks that call back into the collector: SpecHook *)

\* a SetupStart() that calls IsStarted(), or GetStatusString() whose first operand is
\* IsStarted(): it runs inside Start() with mutex_ held
ST_HookCallsIsStarted(t) ==
    /\ At(t, "st_hook")
    /\ Go(t, "is_lock")
    /\ local' = [local EXCEPT ![t].hook = "calls"]
    /\ UNCHANGED <<aggVars, colVars, perVars, op, ghostVars>>

\* a SetupStop() that does the same inside Stop()
SP_HookCallsIsStarted(t) ==
    /\ At(t, "sp_hook")
    /\ Go(t, "is_lock")
    /\ local' = [local EXCEPT ![t].hook = "calls"]
    /\ UNCHANGED <<aggVars, colVars, perVars, op, ghostVars>>

\* std::unique_lock<std::mutex> ulock{mutex_} by the thread that owns mutex_ is undefined:
\* the thread blocks for ever (no step), or the lock throws std::system_error, which
\* unwinds Start()/Stop() and releases mutex_
IS_LockOwned(t) ==
    /\ At(t, "is_lock")
    /\ mutex_ = t
    /\ mutex_' = NoThread
    /\ Go(t, "threw")
    /\ UNCHANGED <<aggVars, started_, perVars, op, local, ghostVars>>

HookSteps(t) ==
    \/ Call_Start(t) \/ Call_Stop(t) \/ Call_AcceptData(t) \/ Call_IsStarted(t)
    \/ Start(t) \/ ST_Hook(t) \/ ST_HookCallsIsStarted(t)
    \/ Stop(t) \/ SP_Hook(t) \/ SP_HookCallsIsStarted(t)
    \/ IsStarted(t) \/ IS_LockOwned(t)
    \/ AddMeasurement(t) \/ Reset(t)
    \/ Return(t)

NextHook == \E t \in ConcThreads : HookSteps(t)

SpecHook == Init /\ [][NextHook]_vars

\* C13 (as claimed): a thread that owns the lock over the started flag and calls
\* IsStarted() can take the lock again
C13_LockIsReentrant ==
    \A t \in ConcThreads :
        (pc[t] = "is_lock" /\ mutex_ = t) => ENABLED IS_Lock(t)

----------------------------------------------------------------------------
(* Windows of the collector used by one thread: SpecColSeq *)

\* C14 (as claimed): the statistics returned once a Start() has made the collector
\* Started count only the observations accepted after that Start()
C14_WindowBeginsAtStart ==
    \A t \in SeqThreads :
        (Returned(t, "GetStatisticsResults") /\ live_start) =>
            local[t].to_return.sample_count = kept

\* C14 (amended): a window begins only at a Reset(), that of Stop() included: the
\* statistics returned count every observation accepted since the last Reset(), those
\* accepted while Stopped and before the latest Start() included
C14_WindowBeginsAtResetOnly ==
    \A t \in SeqThreads :
        Returned(t, "GetStatisticsResults") =>
            local[t].to_return.sample_count = Len(Observations(hist))

\* the statistics of a Started collector count two observations, one accepted while
\* Stopped and one accepted after the Start()
C14_Witness ==
    \E t \in SeqThreads :
        /\ Returned(t, "GetStatisticsResults")
        /\ live_start /\ started_
        /\ kept = 1
        /\ local[t].to_return.sample_count = 2

----------------------------------------------------------------------------
(* Start() of the period adapter called by concurrent threads: SpecPer *)

\* this Start() passed the test of started_
MadeTransition(t) ==
    op[t] = "Start" /\ (pc[t] \in {"st_set", "st_hook"} \/ local[t].hook # "none")

\* C15: Start() decides on started_ under the lock: a Start() that finds the collector
\* Started goes to its return with false, runs no hook and leaves the started flag, the
\* aggregate and the last-received time alone; of the Start() calls with no Stop()
\* transition since, at most one passes the test, and one is rejected only when the
\* collector is Started
C15_StartIsAtomicCheckAndSet ==
    /\ [][\A t \in ConcThreads :
            (op[t] = "Start" /\ pc'[t] # pc[t]) =>
                /\ pc[t] = "st_check" => pc'[t] = IF started_ THEN "st_unlock" ELSE "st_set"
                /\ ((pc[t] = "st_check" /\ started_) \/
                    (pc[t] = "st_unlock" /\ local[t].hook = "none")) =>
                       /\ UNCHANGED <<started_, collected_data_, time_last_message_received_>>
                       /\ pc'[t] \in {"st_unlock", "done"}
                       /\ local'[t].hook = "none" /\ ~local'[t].ret]_vars
    /\ [](/\ Cardinality({t \in ConcThreads :
                            MadeTransition(t) /\ ~local[t].stopped_since}) <= 1
          /\ \A t \in ConcThreads :
                (Returned(t, "Start") /\ ~MadeTransition(t) /\ ~local[t].stopped_since) =>
                    /\ ~local[t].ret
                    /\ started_)

\* two Start() calls raced for the lock: one made the transition, ran the hook and
\* returned true, the other returned false
C15_Witness ==
    \E t \in ConcThreads, u \in ConcThreads :
        /\ Returned(t, "Start") /\ MadeTransition(t) /\ local[t].raced /\ local[t].ret
        /\ Returned(u, "Start") /\ ~MadeTransition(u) /\ ~local[u].ret
        /\ ~local[t].stopped_since /\ ~local[u].stopped_since
        /\ started_

----------------------------------------------------------------------------
(* Start/Stop cycles of the collector used by one thread: SpecColSeq *)

\* C16: a Stop() that found the collector Started leaves it Stopped whatever its hook
\* returned, and the Start() after it passes the test of started_: it sets the flag,
\* runs the start hook and returns the hook's result
C16_StopLeavesRestartable ==
    \A t \in SeqThreads :
        /\ (Returned(t, "Stop") /\ local[t].hook # "none") => ~started_
        /\ (Returned(t, "Start") /\ last_call.op = "Stop" /\ last_call.hook # "none") =>
              /\ local[t].hook # "none"
              /\ local[t].ret = (local[t].hook = "true")
              /\ started_

\* a Stop() whose hook failed was followed by a Start() that has returned true
C16_Witness ==
    \E t \in SeqThreads :
        /\ Returned(t, "Start") /\ local[t].ret /\ started_
        /\ last_call = [op |-> "Stop", ret |-> FALSE, hook |-> "false"]

----------------------------------------------------------------------------
(* AcceptData in both lifecycle states, one thread: SpecColSeq *)

\* C17: no step of AcceptData(x) changes the started flag or its lock, and when it has
\* returned x is the latest observation of the aggregate and the count is the number of
\* non-NaN observations since the last Reset(), whether the collector is Started or not
C17_AcceptDataIgnoresLifecycle ==
    /\ [][\A t \in SeqThreads :
            op[t] = "AcceptData" => UNCHANGED <<started_, mutex_>>]_vars
    /\ [](\A t \in SeqThreads :
            Returned(t, "AcceptData") =>
                /\ hist # <<>>
                /\ hist[Len(hist)] = local[t].item
                /\ collected_data_.count_ = Len(Observations(hist))
                /\ local[t].after_start = started_)

\* an observation accepted while Stopped and one accepted after Start() are both counted
C17_Witness ==
    \E t \in SeqThreads :
        /\ Returned(t, "AcceptData")
        /\ started_ /\ local[t].after_start
        /\ kept = 1
        /\ collected_data_.count_ = 2

----------------------------------------------------------------------------
(* Every operation of the core called by concurrent threads: SpecAll *)

\* the calls that hand in an observation, where every operation may run concurrently:
\* one receipt time and one stamp, so that the first event sets the baseline and the
\* later ones record a period of 0 ms
Call_AcceptDataAll(t) == CallAdd(t, "AcceptData", {Num(2)}, MaxAllObs)
Call_OnMessageReceivedAll(t) == CallOnMessageReceived(t, {50000}, MaxAllObs)
Call_AgeOnMessageReceivedAll(t) ==
    CallAge(t, MaxAllObs, {[sec |-> 0, nanosec |-> 50000]}, {50000})

AllSteps(t) ==
    \/ Call_Start(t) \/ Call_Stop(t) \/ Call_IsStarted(t) \/ Call_GetStatusString(t)
    \/ Call_AcceptDataAll(t) \/ Call_GetStatisticsResults(t) \/ Call_ClearCurrentMeasurements(t)
    \/ Call_OnMessageReceivedAll(t) \/ Call_AgeOnMessageReceivedAll(t)
    \/ Start(t) \/ ST_HookPeriod(t) \/ Stop(t) \/ SP_HookPeriod(t)
    \/ IsStarted(t) \/ GetStatistics(t) \/ AddMeasurement(t) \/ Reset(t)
    \/ OnMessageReceived(t) \/ AGE_Handle(t)
    \/ Return(t)

NextAll == \E t \in ConcThreads : AllSteps(t)

SpecAll == Init /\ [][NextAll]_vars

\* the lock a thread is about to take, and the owner of a lock
WaitsFor(t) ==
    IF pc[t] \in {"am_lock", "rs_lock", "gs_lock", "gc_lock"} THEN "aggregator"
    ELSE IF pc[t] \in {"st_lock", "sp_lock", "is_lock"} THEN "lifecycle"
    ELSE IF pc[t] = "omr_lock" THEN "period"
    ELSE "none"

OwnerOf(l) ==
    IF l = "aggregator" THEN agg_mutex
    ELSE IF l = "lifecycle" THEN mutex_
    ELSE period_mutex

Blocked(t) == WaitsFor(t) # "none" /\ OwnerOf(WaitsFor(t)) # NoThread

\* the thread reached from t by following, at most n times, the owner of the lock waited for
RECURSIVE Root(_, _)
Root(t, n) ==
    IF n = 0 \/ ~Blocked(t) THEN t ELSE Root(OwnerOf(WaitsFor(t)), n - 1)

\* the locks a thread owns
Owned(t) ==
    {l \in {"aggregator", "lifecycle", "period"} : OwnerOf(l) = t}

\* C18: no deadlock state is reachable: every lock is owned by a thread that is inside an
\* operation, a thread that waits for a lock owns at most the period adapter's lock and
\* waits then for the aggregator's, and from every waiting thread the chain of lock
\* owners ends at a thread that waits for nothing
C18_NoDeadlock ==
    /\ \A l \in {"aggregator", "lifecycle", "period"} :
          OwnerOf(l) # NoThread => pc[OwnerOf(l)] \notin {"idle", "done"}
    /\ \A t \in ConcThreads :
          Blocked(t) =>
              /\ Owned(t) \subseteq {"period"}
              /\ Owned(t) = {"period"} => WaitsFor(t) = "aggregator"
              /\ ~Blocked(Root(t, Cardinality(Threads)))

\* a handler that owns the period adapter's lock waits for the aggregator's lock, which
\* a GetStatusString() call owns
C18_Witness ==
    \E t \in ConcThreads, u \in ConcThreads :
        /\ op[t] = "OnMessageReceived" /\ pc[t] = "am_lock" /\ period_mutex = t
        /\ op[u] = "GetStatusString" /\ agg_mutex = u

----------------------------------------------------------------------------
(* GenerateStatisticMessage, generate_statistics_message.cpp 42-89 *)

\* static_cast<double>(data.sample_count)
CountAsDouble(n) == Num(n)

\* msg.statistics.emplace_back(); back().data_type = type; back().data = value
EmplaceBack(msg, type, value) ==
    [msg EXCEPT !.statistics = Append(@, [data_type |-> type, data |-> value])]

\* a slip: the minimum packed before the maximum
GenerateStatisticMessage_MinFirst(node_name, metric_name, unit, window_start, window_stop, data) ==
    LET m0 == [DefaultMetricsMessage EXCEPT !.measurement_source_name = node_name,
                                            !.metrics_source = metric_name,
                                            !.unit = unit,
                                            !.window_start = window_start,
                                            !.window_stop = window_stop]
        m1 == EmplaceBack(m0, "AVERAGE", data.average)
        m2 == EmplaceBack(m1, "MINIMUM", data.min)
        m3 == EmplaceBack(m2, "MAXIMUM", data.max)
        m4 == EmplaceBack(m3, "SAMPLE_COUNT", CountAsDouble(data.sample_count))
    IN  EmplaceBack(m4, "STDDEV", data.standard_deviation)

GenerateStatisticMessage(node_name, metric_name, unit, window_start, window_stop, data) ==
    LET m0 == [DefaultMetricsMessage EXCEPT !.measurement_source_name = node_name,
                                            !.metrics_source = metric_name,
                                            !.unit = unit,
                                            !.window_start = window_start,
                                            !.window_stop = window_stop]
        m1 == EmplaceBack(m0, "AVERAGE", data.average)
        m2 == EmplaceBack(m1, "MAXIMUM", data.max)
        m3 == EmplaceBack(m2, "MINIMUM", data.min)
        m4 == EmplaceBack(m3, "SAMPLE_COUNT", CountAsDouble(data.sample_count))
    IN  EmplaceBack(m4, "STDDEV", data.standard_deviation)

\* the arguments a caller may hand in beside the snapshot
SourceNames == {"talker", "listener"}
MetricNames == {"message_age", "message_period"}
Units == {"ms"}
WindowTimes == {[sec |-> 0, nanosec |-> 0], [sec |-> 1, nanosec |-> 500]}

\* a caller that holds the snapshot GetStatistics() returned packs it into a message
Call_GenerateStatisticMessage(t) ==
    /\ At(t, "done")
    /\ op[t] = "GetStatistics"
    /\ op' = [op EXCEPT ![t] = "GenerateStatisticMessage"]
    /\ \E n \in SourceNames, mn \in MetricNames, u \in Units,
          ws \in WindowTimes, we \in WindowTimes :
          local' = [local EXCEPT
              ![t].args = [DefaultMetricsMessage EXCEPT !.measurement_source_name = n,
                                                        !.metrics_source = mn,
                                                        !.unit = u,
                                                        !.window_start = ws,
                                                        !.window_stop = we],
              ![t].msg = GenerateStatisticMessage(n, mn, u, ws, we, local[t].to_return)]
    /\ UNCHANGED <<aggVars, colVars, perVars, pc, ghostVars>>

(* The aggregator and the result projection used by one thread: SpecMsg *)

NextMsg == \E t \in SeqThreads :
              Call_AddMeasurement(t) \/ AggSteps(t) \/ Call_GenerateStatisticMessage(t)

SpecMsg == Init /\ [][NextMsg]_vars

\* C19: the message holds five entries, AVERAGE, MAXIMUM, MINIMUM, SAMPLE_COUNT and
\* STDDEV in this order, with the snapshot's average, max, min, sample count and standard
\* deviation as data, and the source name, metric name, unit and window bounds it was given
C19_FivePointsInFixedOrder ==
    \A t \in SeqThreads :
        Returned(t, "GenerateStatisticMessage") =>
            LET m == local[t].msg
                d == local[t].to_return
            IN  /\ Len(m.statistics) = 5
                /\ [i \in 1..5 |-> m.statistics[i].data_type] =
                      <<"AVERAGE", "MAXIMUM", "MINIMUM", "SAMPLE_COUNT", "STDDEV">>
                /\ [i \in 1..5 |-> m.statistics[i].data] =
                      <<d.average, d.max, d.min,
                        [k |-> "fin", n |-> d.sample_count, d |-> 1],
                        d.standard_deviation>>
                /\ [m EXCEPT !.statistics = <<>>] = local[t].args

\* the snapshot of the observations 1 and 3 has been packed: maximum 3 before minimum 1
C19_Witness ==
    \E t \in SeqThreads :
        /\ Returned(t, "GenerateStatisticMessage")
        /\ local[t].to_return.sample_count = 2
        /\ local[t].msg.statistics[2] = [data_type |-> "MAXIMUM", data |-> Num(3)]
        /\ local[t].msg.statistics[3] = [data_type |-> "MINIMUM", data |-> Num(1)]
        /\ local[t].msg.measurement_source_name = "talker"
        /\ local[t].msg.window_stop = [sec |-> 1, nanosec |-> 500]

----------------------------------------------------------------------------
(* Concurrent producers, NaN among their observations: SpecCount *)

\* the observations concurrent producers hand in
CountItems == {NaN, Num(2)}

Call_AddMeasurementCount(t) == CallAdd(t, "AddMeasurement", CountItems, MaxCountObs)

\* AddMeasurement, Reset and GetCount, the operations that touch count_
CountSteps(t) ==
    \/ Call_Reset(t) \/ Call_GetCount(t)
    \/ AddMeasurement(t) \/ Reset(t) \/ GetCount(t)
    \/ Return(t)

NextCount == \E t \in Threads : Call_AddMeasurementCount(t) \/ CountSteps(t)

SpecCount == Init /\ [][NextCount]_vars

\* the calls of AddMeasurement that have left their critical section since the last
\* Reset() left its own, NaN arguments not counted
CompletedSinceReset == Len(Observations(hist))

\* C20: whenever the aggregator's lock is free, and whenever GetCount() reads it, the
\* sample count is the number of AddMeasurement calls with a non-NaN argument completed
\* since the last completed Reset(): none lost, none counted twice
C20_CountIsCompletedCalls ==
    /\ agg_mutex = NoThread => collected_data_.count_ = CompletedSinceReset
    /\ \A t \in Threads :
          (op[t] = "GetCount" /\ pc[t] = "gc_unlock") =>
              local[t].count = CompletedSinceReset

\* two producers have each completed an AddMeasurement of a number while a third thread's
\* call with NaN is in progress, and the count is two
C20_Witness ==
    \E t \in Threads, u \in Threads, v \in Threads :
        /\ t # u /\ v \notin {t, u}
        /\ Returned(t, "AddMeasurement") /\ ~isnan(local[t].item)
        /\ Returned(u, "AddMeasurement") /\ ~isnan(local[u].item)
        /\ op[v] = "AddMeasurement" /\ isnan(local[v].item) /\ pc[v] = "am_lock"
        /\ agg_mutex = NoThread
        /\ collected_data_.count_ = 2

----------------------------------------------------------------------------
(* Start, Stop and IsStarted of one collector called by concurrent threads: SpecLife *)

LifeSteps(t) ==
    \/ Call_Start(t) \/ Call_Stop(t) \/ Call_IsStarted(t)
    \/ Start(t) \/ ST_Hook(t) \/ Stop(t) \/ SP_Hook(t) \/ Reset(t)
    \/ IsStarted(t)
    \/ Return(t)

NextLife == \E t \in ConcThreads : LifeSteps(t)

SpecLife == Init /\ [][NextLife]_vars

\* a Start() has set started_ and its SetupStart() has not returned yet
StartHookPending == \E u \in Threads : op[u] = "Start" /\ pc[u] = "st_hook"

\* a Stop() has cleared started_ and its SetupStop() has not returned yet
StopHookPending == \E u \in Threads : op[u] = "Stop" /\ pc[u] = "sp_hook"

\* C21: when IsStarted() reads started_, no Start() is between its transition and the
\* return of its start hook and no Stop() between its transition and the return of its
\* stop hook: the value read is one whose hook has completed, and every thread that is
\* past a transition with its hook still to run owns the collector's lock
C21_HookInsideTransitionSection ==
    /\ [][\A t \in Threads : IS_Read(t) => ~StartHookPending /\ ~StopHookPending]_vars
    /\ [](\A u \in Threads : pc[u] \in {"st_set", "st_hook", "sp_set", "sp_hook"} => mutex_ = u)

\* IsStarted() has just read true while the Start() of another thread, whose hook
\* completed, has returned
C21_Witness ==
    \E t \in Threads, u \in Threads :
        /\ op[t] = "IsStarted" /\ pc[t] = "is_unlock" /\ local[t].ret
        /\ Returned(u, "Start") /\ local[u].hook # "none"

----------------------------------------------------------------------------
(* A start hook that fails, one thread: SpecColSeq *)

\* the Start/Stop call before this one was a Start() whose hook returned false
AfterFailedStart == last_call = [op |-> "Start", ret |-> FALSE, hook |-> "false"]

\* C22: a Start() whose hook returned false returns false and leaves started_ set; after
\* it IsStarted() returns true, Start() returns false without running the hook, and Stop()
\* clears started_, runs the stop hook and leaves the aggregate empty
C22_FailedStartLeavesStarted ==
    \A t \in SeqThreads :
        /\ (Returned(t, "Start") /\ local[t].hook = "false") => (~local[t].ret /\ started_)
        /\ AfterFailedStart =>
              /\ Returned(t, "IsStarted") => local[t].ret
              /\ Returned(t, "Start") => (~local[t].ret /\ local[t].hook = "none" /\ started_)
              /\ Returned(t, "Stop") =>
                    /\ local[t].hook # "none"
                    /\ local[t].ret = (local[t].hook = "true")
                    /\ ~started_
                    /\ collected_data_.count_ = 0

\* the Stop() after a failed Start() ran its hook and erased an observation
C22_Witness ==
    \E t \in SeqThreads :
        /\ AfterFailedStart
        /\ Returned(t, "Stop") /\ local[t].hook = "true" /\ local[t].erased > 0

----------------------------------------------------------------------------
(* GetStatusString beside Start, Stop, AcceptData and ClearCurrentMeasurements: SpecStatus *)

StatusSteps(t) ==
    \/ Call_Start(t) \/ Call_Stop(t) \/ Call_GetStatusStringObserved(t)
    \/ Call_AcceptDataAll(t) \/ Call_ClearCurrentMeasurements(t)
    \/ Start(t) \/ ST_Hook(t) \/ Stop(t) \/ SP_Hook(t)
    \/ IsStarted(t) \/ GetStatistics(t) \/ AddMeasurement(t) \/ Reset(t)
    \/ Return(t)

NextStatus == \E t \in ConcThreads : StatusSteps(t)

SpecStatus == Init /\ [][NextStatus]_vars

\* C23 (as claimed): the started value and the sample count rendered by one
\* GetStatusString() were held together by the collector at some instant of the call
C23_StatusIsOneInstant ==
    \A t \in ConcThreads :
        Returned(t, "GetStatusString") =>
            <<local[t].ret, local[t].to_return.sample_count>> \in local[t].joint

\* C23 (amended): each operand is read under its own lock: the started value is the
\* flag at the instant IsStarted() read it, and the snapshot describes the observations
\* the aggregate held at the instant GetStatisticsResults() locked it
C23_EachOperandIsOneInstant ==
    /\ [][\A t \in ConcThreads :
            (op[t] = "GetStatusString" /\ IS_Read(t)) =>
                (mutex_ = t /\ local'[t].ret = started_)]_vars
    /\ [](\A t \in ConcThreads :
            Returned(t, "GetStatusString") =>
                /\ local[t].to_return =
                      GetStatisticsOf(AggregateAfter(Observations(local[t].seen_hist)))
                /\ \E b \in BOOLEAN : \E n \in 0..MaxAllObs :
                      /\ <<b, local[t].to_return.sample_count>> \in local[t].joint
                      /\ <<local[t].ret, n>> \in local[t].joint)

\* a status string of "started=false" with one sample, rendered while the collector went
\* from Stopped and empty to Started and then to one sample
C23_Witness ==
    \E t \in ConcThreads :
        /\ Returned(t, "GetStatusString")
        /\ ~local[t].ret /\ local[t].to_return.sample_count = 1
        /\ local[t].joint = {<<FALSE, 0>>, <<TRUE, 0>>, <<TRUE, 1>>}

----------------------------------------------------------------------------
(* The aggregator fed infinite observations, one thread: SpecInf *)

\* observations that pass the std::isnan test, the infinite ones among them
InfItems == {PInf, NInf, Num(1), Num(3), NaN}

Call_AddMeasurementInf(t) == CallAdd(t, "AddMeasurement", InfItems, MaxObs)

NextInf == \E t \in SeqThreads : Call_AddMeasurementInf(t) \/ AggSteps(t)

SpecInf == Init /\ [][NextInf]_vars

\* C24: a snapshot with sample_count > 0 has no NaN among average, min, max and
\* standard_deviation, and a snapshot with a NaN field has sample_count 0
C24_NoNaNInNonEmptySnapshot ==
    \A t \in SeqThreads :
        (Returned(t, "GetStatistics") /\ local[t].to_return.sample_count > 0) =>
            /\ ~isnan(local[t].to_return.average)
            /\ ~isnan(local[t].to_return.min)
            /\ ~isnan(local[t].to_return.max)
            /\ ~isnan(local[t].to_return.standard_deviation)

----------------------------------------------------------------------------
(* Events with receipt time 0, handled one after another: SpecPerSeq *)

\* C25: an event with receipt time 0 handled while the last-received time is
\* uninitialized records nothing and leaves it uninitialized (0), and the event handled
\* next is again a first one: it records nothing either
C25_ZeroReceiptTimeIsSentinel ==
    LET n == Len(delivered)
        \* the events up to the i-th all came with receipt time 0
        ZeroSoFar(i) == \A j \in 1..i : delivered[j].now = 0
    IN  /\ \A i \in 1..n :
              (ZeroSoFar(i) \/ (i > 1 /\ ZeroSoFar(i - 1)) \/ i = 1) =>
                  delivered[i].recorded = "baseline"
        /\ (n >= 1 /\ ZeroSoFar(n) /\ ~HandlerRunning) => time_last_message_received_ = 0
        /\ (n >= 1 /\ ZeroSoFar(n - 1)) => PeriodsOf(delivered) = <<>>

\* after a Start(), an event with receipt time 0 and then one with 1000000 ns were handled:
\* neither recorded a period, and the second became the baseline
C25_Witness ==
    /\ started_
    /\ Len(delivered) = 2
    /\ delivered[1] = [now |-> 0, recorded |-> "baseline", period |-> NaN]
    /\ delivered[2] = [now |-> 1000000, recorded |-> "baseline", period |-> NaN]
    /\ time_last_message_received_ = 1000000
    /\ collected_data_.count_ = 0
    /\ ~HandlerRunning

----------------------------------------------------------------------------
(* The period adapter with ClearCurrentMeasurements, one thread: SpecPerClear *)

NextPerClear ==
    \E t \in SeqThreads : PeriodSeqSteps(t) \/ Call_ClearCurrentMeasurements(t)

SpecPerClear == Init /\ [][NextPerClear]_vars

\* C26: no step of Stop() or ClearCurrentMeasurements() changes the last-received time
\* or the adapter's lock, and none of ClearCurrentMeasurements() changes the started flag
\* or its lock; so every event after the first one since the last Start() records the time
\* since the event before it, whether or not a Stop() or a ClearCurrentMeasurements()
\* came between the two
C26_StopAndClearKeepLastReceived ==
    /\ [][\A t \in SeqThreads :
            /\ op[t] \in {"Stop", "ClearCurrentMeasurements"} =>
                  /\ time_last_message_received_' = time_last_message_received_
                  /\ period_mutex' = period_mutex
            /\ op[t] = "ClearCurrentMeasurements" =>
                  (started_' = started_ /\ mutex_' = mutex_)]_vars
    /\ [](\A i \in 2..Len(delivered) :
            delivered[i - 1].now # 0 =>
                /\ delivered[i].recorded = "period"
                /\ delivered[i].period =
                      Fin(delivered[i].now - delivered[i - 1].now, 1000000))

\* three events since the Start(); a Stop() after the second erased its period from the
\* aggregate, and the third, handled in state Stopped, recorded the millisecond since the
\* second: the aggregate holds that one period
C26_Witness ==
    /\ ~started_
    /\ Len(delivered) = 3
    /\ <<delivered[1].now, delivered[2].now, delivered[3].now>> = <<1000000, 1500000, 2500000>>
    /\ PeriodsOf(delivered) = <<Fin(1, 2), Num(1)>>
    /\ hist = <<Num(1)>>
    /\ last_call.op = "Stop" /\ last_call.ret
    /\ time_last_message_received_ = 2500000

----------------------------------------------------------------------------
(* Events handled by concurrent threads of one period adapter, no Start(): SpecRecv *)

\* non-zero receipt times, whole milliseconds
RecvTimes == {1000000, 2000000, 4000000}

Call_OnMessageReceivedRecv(t) == CallOnMessageReceivedSeq(t, RecvTimes)

RecvSteps(t) ==
    \/ Call_OnMessageReceivedRecv(t)
    \/ OnMessageReceived(t) \/ AddMeasurement(t)
    \/ Return(t)

NextRecv == \E t \in Threads : RecvSteps(t)

SpecRecv == Init /\ [][NextRecv]_vars

\* a thread is inside the handler's critical section
InHandler == \E t \in Threads : op[t] = "OnMessageReceived" /\ pc[t] \notin {"idle", "omr_lock", "done"}

\* C27: when no handler is inside its critical section and the n >= 1 events handled so
\* far came with non-zero receipt times, the first of them set the baseline, the others
\* recorded n - 1 periods, all of which reached the aggregator, and the periods sum to
\* the last-received time minus the baseline, in milliseconds
C27_PeriodsTelescope ==
    LET n == Len(delivered)
    IN  (n >= 1 /\ ~InHandler /\ \A i \in 1..n : delivered[i].now # 0) =>
            /\ delivered[1].recorded = "baseline"
            /\ Len(PeriodsOf(delivered)) = n - 1
            /\ hist = PeriodsOf(delivered)
            /\ collected_data_.count_ = n - 1
            /\ SumOf(PeriodsOf(delivered)) =
                  Fin(time_last_message_received_ - delivered[1].now, 1000000)

\* three threads delivered events received at 1, 2 and 4 ms; the handler of the second
\* ran first, so a period of -1 ms and one of 3 ms were recorded, 2 ms in sum
C27_Witness ==
    /\ ~InHandler
    /\ Len(delivered) = 3
    /\ <<delivered[1].now, delivered[2].now, delivered[3].now>> = <<2000000, 1000000, 4000000>>
    /\ PeriodsOf(delivered) = <<Num(-1), Num(3)>>
    /\ time_last_message_received_ = 4000000
    /\ collected_data_.count_ = 2

====
